---------------------------- MODULE Spec2Model ----------------------------
(***************************************************************************)
(* Sheet estimator: oversize splitting (estimate.js) and sheet nesting     *)
(* (optimize.js).                                                          *)
(*                                                                         *)
(* Lengths are exact.  A length produced by a division (a strip or grid    *)
(* cell size) is the rational n/d, held as the record [n |-> n, d |-> d]   *)
(* with d > 0.  A nesting run holds every length as an integer multiple of *)
(* 1/den of the length unit (den is a variable of the run): nestParts only *)
(* adds, subtracts, multiplies and compares lengths, so a run on the       *)
(* lengths multiplied by den takes the same decisions.  The length unit is *)
(* one eighth of an inch, so the default kerf 0.125 is 1 and the minimum   *)
(* usable strip size 0.5 is 4.                                             *)
(***************************************************************************)
EXTENDS Integers, Sequences, FiniteSets

VARIABLES
    pc,        \* "idle": nothing called yet; "nest": inside the loop of nestParts; "done": nestParts returned
    job,       \* the call that built the part list: its arguments and the result of fitOrSplit
    warnings,  \* warningsArr of splitAndPush / warnings of calcSheet
    parts,     \* the part list handed to nestParts (lengths in 1/den)
    den,       \* the denominator of the lengths of this nesting run
    sheetW,    \* nestParts argument sheetW (in 1/den)
    sheetL,    \* nestParts argument sheetL (in 1/den)
    kerf,      \* nestParts argument kerf (in 1/den)
    rects,     \* the expanded, sorted rectangles
    r,         \* the loop index of nestParts, 1-based: the next rectangle to handle
    sheets,    \* var sheets
    unplaced,  \* var unplaced
    runs,      \* the number of calls of nestParts this page has made
    fitPerSheet \* the Fit/Sheet column of the sheet estimate, one entry per part

vars == <<pc, job, warnings, parts, den, sheetW, sheetL, kerf, rects, r, sheets, unplaced, runs,
          fitPerSheet>>

----------------------------------------------------------------------------
(* Bounds of the model *)

\* the largest quantity of one part
MaxQty == 2
\* the largest width and length of a part handed to nestParts directly
MaxDim == 3
\* the largest number of calls of nestParts one page makes
MaxRuns == 2

\* the lengths of the part lists handed to nestParts directly
PartCounts == {1, 2}
\* width and length of a part handed to nestParts directly
Dims == 1..MaxDim
\* the stock sheets of the direct nesting runs
NestStocks == {<<5, 6>>, <<2, 3>>, <<2, 2>>}
\* kerf values of the direct nesting runs
NestKerfs == {0, 1}

\* width and length of a part handed to fitOrSplit, in eighths of an inch
SplitDims == {3, 5, 7, 9, 13, 16}
\* the stock sheets of the small fitOrSplit calls
SplitStocks == {<<4, 6>>, <<6, 6>>, <<4, 16>>, <<6, 10>>}
\* kerf values of the small fitOrSplit calls
SplitKerfs == {0, 1}
\* full-size parts on the 48 x 96 inch sheet with kerf 0.125:
\* 96 x 200, 60 x 110, 48 x 96, 90 x 40, 96.125 x 50, 50 x 87.5, 200 x 100 and
\* 100 x 200 inches
FullSizeParts ==
    {<<768, 1600>>, <<480, 880>>, <<384, 768>>, <<720, 320>>, <<769, 400>>, <<400, 700>>,
     <<1600, 800>>, <<800, 1600>>}
FullSizeStock == <<384, 768>>
FullSizeKerf == 1

\* the arguments <<partW, partL, stockW, stockL, seamGap>> of the fitOrSplit calls
SplitInputs ==
    {<<w, l, st[1], st[2], k>> : w \in SplitDims, l \in SplitDims,
                                 st \in SplitStocks, k \in SplitKerfs}
    \cup {<<p[1], p[2], FullSizeStock[1], FullSizeStock[2], FullSizeKerf>> : p \in FullSizeParts}

----------------------------------------------------------------------------
(* Arithmetic helpers *)

Max(a, b) == IF a >= b THEN a ELSE b

Min(a, b) == IF a <= b THEN a ELSE b

RECURSIVE Flatten(_)
\* the concatenation of a sequence of sequences
Flatten(ss) == IF ss = <<>> THEN <<>> ELSE Head(ss) \o Flatten(Tail(ss))

----------------------------------------------------------------------------
(* optimize.js *)

Rectangle(w, h, id) == [w |-> w, h |-> h, id |-> id]

Sheet(w, h, index, k) ==
    [w |-> w, h |-> h, index |-> index, kerf |-> k,
     placements |-> <<>>,
     freeRects |-> <<[x |-> 0, y |-> 0, w |-> w, h |-> h]>>]

\* SplitAround with the residual below the occupied area left out
SplitAround_NoBottom(f, occX, occY, occW, occH) ==
    IF occX >= f.x + f.w \/ occX + occW <= f.x \/
       occY >= f.y + f.h \/ occY + occH <= f.y
    THEN <<f>>
    ELSE (IF occX > f.x
          THEN <<[x |-> f.x, y |-> f.y, w |-> occX - f.x, h |-> f.h]>>
          ELSE <<>>)
      \o (IF occX + occW < f.x + f.w
          THEN <<[x |-> occX + occW, y |-> f.y,
                  w |-> (f.x + f.w) - (occX + occW), h |-> f.h]>>
          ELSE <<>>)
      \o (IF occY > f.y
          THEN <<[x |-> f.x, y |-> f.y, w |-> f.w, h |-> occY - f.y]>>
          ELSE <<>>)

\* the residual rectangles of free rectangle f around the occupied area
SplitAround(f, occX, occY, occW, occH) ==
    IF occX >= f.x + f.w \/ occX + occW <= f.x \/
       occY >= f.y + f.h \/ occY + occH <= f.y
    THEN <<f>>
    ELSE (IF occX > f.x
          THEN <<[x |-> f.x, y |-> f.y, w |-> occX - f.x, h |-> f.h]>>
          ELSE <<>>)
      \o (IF occX + occW < f.x + f.w
          THEN <<[x |-> occX + occW, y |-> f.y,
                  w |-> (f.x + f.w) - (occX + occW), h |-> f.h]>>
          ELSE <<>>)
      \o (IF occY > f.y
          THEN <<[x |-> f.x, y |-> f.y, w |-> f.w, h |-> occY - f.y]>>
          ELSE <<>>)
      \o (IF occY + occH < f.y + f.h
          THEN <<[x |-> f.x, y |-> occY + occH, w |-> f.w,
                  h |-> (f.y + f.h) - (occY + occH)]>>
          ELSE <<>>)

\* the test of removeDuplicateRects: r lies within o
ContainedIn(rc, o) ==
    /\ rc.x >= o.x /\ rc.y >= o.y
    /\ rc.x + rc.w <= o.x + o.w /\ rc.y + rc.h <= o.y + o.h

RECURSIVE KeepFrom(_, _)
\* the rectangles of rs from index i on that removeDuplicateRects keeps
KeepFrom(rs, i) ==
    IF i > Len(rs) THEN <<>>
    ELSE LET contained == \E j \in 1..Len(rs) : j # i /\ ContainedIn(rs[i], rs[j])
         IN (IF ~contained /\ rs[i].w > 0 /\ rs[i].h > 0 THEN <<rs[i]>> ELSE <<>>)
            \o KeepFrom(rs, i + 1)

\* removeDuplicateRects without the containment test
removeDuplicateRects_KeepAll(rs) == SelectSeq(rs, LAMBDA x : x.w > 0 /\ x.h > 0)

RECURSIVE KeepFromEarlier(_, _)
KeepFromEarlier(rs, i) ==
    IF i > Len(rs) THEN <<>>
    ELSE LET contained == \E j \in 1..(i - 1) : ContainedIn(rs[i], rs[j])
         IN (IF ~contained /\ rs[i].w > 0 /\ rs[i].h > 0 THEN <<rs[i]>> ELSE <<>>)
            \o KeepFromEarlier(rs, i + 1)

\* removeDuplicateRects with the inner loop running over the earlier rectangles only
removeDuplicateRects_Earlier(rs) == KeepFromEarlier(rs, 1)

removeDuplicateRects(rs) == KeepFrom(rs, 1)

\* newFreeRects with the kerf on all four sides of the occupied area
newFreeRects_KerfAllSides(freeRects, p, k) ==
    LET occX == p.x - k
        occY == p.y - k
        occW == p.w + 2 * k
        occH == p.h + 2 * k
    IN Flatten([i \in 1..Len(freeRects) |->
                  SplitAround(freeRects[i], occX, occY, occW, occH)])

\* newFreeRects with the occupied area not grown by the kerf
newFreeRects_NoKerf(freeRects, p, k) ==
    Flatten([i \in 1..Len(freeRects) |->
               SplitAround(freeRects[i], p.x, p.y, p.w, p.h)])

\* the list newFree that updateFreeRects builds for the placement p
newFreeRects(freeRects, p, k) ==
    LET occX == p.x
        occY == p.y
        occW == p.w + k
        occH == p.h + k
    IN Flatten([i \in 1..Len(freeRects) |->
                  SplitAround(freeRects[i], occX, occY, occW, occH)])

\* the free rectangles of a sheet after the placement p
updateFreeRects(freeRects, p, k) == removeDuplicateRects(newFreeRects(freeRects, p, k))

\* the placement record without the swap of w and h when rotated
Placement_NoSwap(rect, x, y, rotated) ==
    [rect |-> rect, x |-> x, y |-> y, w |-> rect.w, h |-> rect.h, rotated |-> rotated]

\* the placement record addPlacement builds
Placement(rect, x, y, rotated) ==
    [rect |-> rect, x |-> x, y |-> y,
     w |-> IF rotated THEN rect.h ELSE rect.w,
     h |-> IF rotated THEN rect.w ELSE rect.h,
     rotated |-> rotated]

\* addPlacement keeping only the latest placement of the sheet
addPlacement_KeepsLatestOnly(sheet, rect, x, y, rotated) ==
    LET p == Placement(rect, x, y, rotated)
    IN [sheet EXCEPT !.placements = <<p>>,
                     !.freeRects = updateFreeRects(@, p, sheet.kerf)]

addPlacement(sheet, rect, x, y, rotated) ==
    LET p == Placement(rect, x, y, rotated)
    IN [sheet EXCEPT !.placements = Append(@, p),
                     !.freeRects = updateFreeRects(@, p, sheet.kerf)]

\* findBestPosition's "best = null"
NoPos == [found |-> FALSE, score |-> 0, x |-> 0, y |-> 0, rotated |-> FALSE]

\* a candidate replaces best when its score is less or equal
Better_OrEqual(best, score) == ~best.found \/ score <= best.score

\* a candidate replaces best when its score is strictly less (bestScore starts at Infinity)
Better(best, score) == ~best.found \/ score < best.score

\* the loop body of findBestPosition with "or" between the two side tests
ScanRect_EitherSide(best, f, rectW, rectH) ==
    LET score == Min(f.w - rectW, f.h - rectH)
        b1 == IF (rectW <= f.w \/ rectH <= f.h) /\ Better(best, score)
              THEN [found |-> TRUE, score |-> score, x |-> f.x, y |-> f.y, rotated |-> FALSE]
              ELSE best
        score2 == Min(f.w - rectH, f.h - rectW)
    IN IF (rectH <= f.w \/ rectW <= f.h) /\ Better(b1, score2)
       THEN [found |-> TRUE, score |-> score2, x |-> f.x, y |-> f.y, rotated |-> TRUE]
       ELSE b1

\* the body of findBestPosition's loop for free rectangle f
ScanRect(best, f, rectW, rectH) ==
    LET score == Min(f.w - rectW, f.h - rectH)
        b1 == IF rectW <= f.w /\ rectH <= f.h /\ Better(best, score)
              THEN [found |-> TRUE, score |-> score, x |-> f.x, y |-> f.y, rotated |-> FALSE]
              ELSE best
        score2 == Min(f.w - rectH, f.h - rectW)
    IN IF rectH <= f.w /\ rectW <= f.h /\ Better(b1, score2)
       THEN [found |-> TRUE, score |-> score2, x |-> f.x, y |-> f.y, rotated |-> TRUE]
       ELSE b1

RECURSIVE ScanFrom(_, _, _, _, _)
ScanFrom(freeRects, i, best, rectW, rectH) ==
    IF i > Len(freeRects) THEN best
    ELSE ScanFrom(freeRects, i + 1, ScanRect(best, freeRects[i], rectW, rectH), rectW, rectH)

findBestPosition(freeRects, rectW, rectH) == ScanFrom(freeRects, 1, NoPos, rectW, rectH)

\* partFits without the rotated orientation
partFits_NoRotation(partW, partL, sW, sL) == partW <= sW /\ partL <= sL

\* partFits comparing areas instead of sides
partFits_ByArea(partW, partL, sW, sL) == partW * partL <= sW * sL

partFits(partW, partL, sW, sL) ==
    LET fitsNormal == partW <= sW /\ partL <= sL
        fitsRotated == partL <= sW /\ partW <= sL
    IN fitsNormal \/ fitsRotated

\* how many parts fit per sheet (for estimates); the divisions are floored
partsPerSheet(partW, partL, sW, sL, k) ==
    LET pw == partW + k
        pl == partL + k
        fit1 == (sW \div pw) * (sL \div pl)
        fit2 == (sW \div pl) * (sL \div pw)
    IN Max(fit1, fit2)

RECURSIVE Repeat(_, _, _, _)
\* the inner loop of the expansion: qty rectangles of part p, ids from firstId
Repeat(p, j, qty, firstId) ==
    IF j >= qty THEN <<>>
    ELSE <<Rectangle(p.w, p.l, firstId + j)>> \o Repeat(p, j + 1, qty, firstId)

RECURSIVE ExpandFrom(_, _, _)
\* the expansion of the part list from part i on, acc the rectangles pushed so far
ExpandFrom(ps, i, acc) ==
    IF i > Len(ps) THEN acc
    ELSE ExpandFrom(ps, i + 1, acc \o Repeat(ps[i], 0, ps[i].qty, Len(acc)))

ExpandParts(ps) == ExpandFrom(ps, 1, <<>>)

\* the comparison of the sort without the tie-break on the longest side
compareRects_AreaOnly(a, b) == b.w * b.h - a.w * a.h

\* the comparator of rects.sort: negative when a goes before b
compareRects(a, b) ==
    LET areaA == a.w * a.h
        areaB == b.w * b.h
    IN IF areaB # areaA THEN areaB - areaA
       ELSE Max(b.w, b.h) - Max(a.w, a.h)

RECURSIVE InsertSorted(_, _)
\* x inserted into the sorted s behind every element that does not go after it
InsertSorted(s, x) ==
    IF s = <<>> THEN <<x>>
    ELSE IF compareRects(Head(s), x) <= 0 THEN <<Head(s)>> \o InsertSorted(Tail(s), x)
    ELSE <<x>> \o s

RECURSIVE SortFrom(_, _, _)
SortFrom(rs, i, acc) ==
    IF i > Len(rs) THEN acc ELSE SortFrom(rs, i + 1, InsertSorted(acc, rs[i]))

\* Array.prototype.sort with compareRects: a stable sort
SortRects(rs) == SortFrom(rs, 1, <<>>)

\* the index of the last sheet from s on whose findBestPosition is not null, 0 if none
FirstAccepting_Last(shs, s, rect) ==
    LET accepting == {j \in s..Len(shs) : findBestPosition(shs[j].freeRects, rect.w, rect.h).found}
    IN IF accepting = {} THEN 0
       ELSE CHOOSE j \in accepting : \A m \in accepting : m <= j

RECURSIVE FirstAccepting(_, _, _)
\* the index of the first sheet from s on whose findBestPosition is not null, 0 if none
FirstAccepting(shs, s, rect) ==
    IF s > Len(shs) THEN 0
    ELSE IF findBestPosition(shs[s].freeRects, rect.w, rect.h).found THEN s
    ELSE FirstAccepting(shs, s + 1, rect)

\* the sheets after one iteration of the placing loop for a rectangle that can fit
PlaceRect(shs, rect, sW, sL, k) ==
    LET s == FirstAccepting(shs, 1, rect)
    IN IF s > 0
       THEN LET pos == findBestPosition(shs[s].freeRects, rect.w, rect.h)
            IN [shs EXCEPT ![s] = addPlacement(@, rect, pos.x, pos.y, pos.rotated)]
       ELSE LET newSheet == Sheet(sW, sL, Len(shs) + 1, k)
                pos2 == findBestPosition(newSheet.freeRects, rect.w, rect.h)
            IN IF pos2.found
               THEN Append(shs, addPlacement(newSheet, rect, pos2.x, pos2.y, pos2.rotated))
               ELSE shs

----------------------------------------------------------------------------
(* Exact rationals: the values of the divisions of estimate.js *)

Rat(n, d) == [n |-> n, d |-> d]

RatLE(a, b) == a.n * b.d <= b.n * a.d

RatLT(a, b) == a.n * b.d < b.n * a.d

RatEq(a, b) == a.n * b.d = b.n * a.d

\* Math.ceil(a / b) for a >= 0 and b > 0
CeilDiv(a, b) == (a + b - 1) \div b

----------------------------------------------------------------------------
(* estimate.js *)

\* the cap of the refinement loops: for (tries = 0; tries < 10; tries++)
MaxTries == 10

\* the minimum usable strip size 0.5, in eighths of an inch
MinUsable == 4

allowsSeams(materialName) == TRUE

\* partFitsStock without the swapped orientation
partFitsStock_NoRotation(partW, partL, stockW, stockL) ==
    partW <= stockW /\ partL <= stockL

partFitsStock(partW, partL, stockW, stockL) ==
    \/ (partW <= stockW /\ partL <= stockL)
    \/ (partL <= stockW /\ partW <= stockL)

\* CellSize with one gap per strip instead of one gap between strips
CellSize_GapPerStrip(dim, count, seamGap) == Rat(dim - count * seamGap, count)

\* (dim - (count - 1) * seamGap) / count
CellSize(dim, count, seamGap) == Rat(dim - (count - 1) * seamGap, count)

\* the test that ends a refinement loop: the size fits and is usable
SizeOk(size, maxDim) == RatLE(size, Rat(maxDim, 1)) /\ RatLT(Rat(MinUsable, 1), size)

RECURSIVE RefineCount_TwentyTries(_, _, _, _, _)
\* the refinement loop with a cap of 20 attempts
RefineCount_TwentyTries(dim, maxDim, seamGap, count, tries) ==
    IF tries >= 2 * MaxTries THEN count
    ELSE IF SizeOk(CellSize(dim, count, seamGap), maxDim) THEN count
    ELSE RefineCount_TwentyTries(dim, maxDim, seamGap, count + 1, tries + 1)

RECURSIVE RefineCount(_, _, _, _, _)
\* the refinement loop: the count it leaves, from count at attempt tries
RefineCount(dim, maxDim, seamGap, count, tries) ==
    IF tries >= MaxTries THEN count
    ELSE IF SizeOk(CellSize(dim, count, seamGap), maxDim) THEN count
    ELSE RefineCount(dim, maxDim, seamGap, count + 1, tries + 1)

\* calcStripLayout's "return null"
NoLayout == [ok |-> FALSE, stripSize |-> Rat(0, 1), keepDim |-> 0, stripCount |-> 0]

\* maxStripDimOf with the stock axes of the two one-way cases exchanged
maxStripDimOf_Swapped(keepDim, stockW, stockL) ==
    IF keepDim <= stockL /\ keepDim <= stockW THEN Max(stockW, stockL)
    ELSE IF keepDim <= stockL THEN stockL
    ELSE stockW

\* maxStripDimOf taking the larger stock axis in every case
maxStripDimOf_Larger(keepDim, stockW, stockL) == Max(stockW, stockL)

\* the maximum strip size of calcStripLayout, for a keep dimension that fits one way at least
maxStripDimOf(keepDim, stockW, stockL) ==
    LET keepFitsInW == keepDim <= stockW
        keepFitsInL == keepDim <= stockL
    IN IF keepFitsInL /\ keepFitsInW THEN Max(stockW, stockL)
       ELSE IF keepFitsInL THEN stockW
       ELSE stockL

calcStripLayout(splitDim, keepDim, stockW, stockL, seamGap) ==
    LET keepFitsInW == keepDim <= stockW
        keepFitsInL == keepDim <= stockL
        maxStripDim == maxStripDimOf(keepDim, stockW, stockL)
        stripCount == RefineCount(splitDim, maxStripDim, seamGap,
                                  CeilDiv(splitDim, maxStripDim), 0)
        stripSize == CellSize(splitDim, stripCount, seamGap)
    IN IF ~keepFitsInW /\ ~keepFitsInL THEN NoLayout
       ELSE IF maxStripDim <= 0 THEN NoLayout
       ELSE IF RatLE(stripSize, Rat(0, 1)) \/ RatLT(Rat(maxStripDim, 1), stripSize) THEN NoLayout
       ELSE [ok |-> TRUE, stripSize |-> stripSize, keepDim |-> keepDim,
             stripCount |-> stripCount]

\* calcGridLayout's "best = null"
NoGrid == [ok |-> FALSE, cols |-> 0, rows |-> 0, total |-> 0,
           pieceW |-> Rat(0, 1), pieceL |-> Rat(0, 1)]

\* the loop body of calcGridLayout replacing best on an equal total as well
GridFor_PreferLater(best, partW, partL, sw, sl, seamGap) ==
    LET cols == RefineCount(partW, sw, seamGap, CeilDiv(partW, sw), 0)
        rows == RefineCount(partL, sl, seamGap, CeilDiv(partL, sl), 0)
        pieceW == CellSize(partW, cols, seamGap)
        pieceL == CellSize(partL, rows, seamGap)
        total == cols * rows
    IN IF /\ RatLT(Rat(MinUsable, 1), pieceW) /\ RatLT(Rat(MinUsable, 1), pieceL)
          /\ RatLE(pieceW, Rat(sw, 1)) /\ RatLE(pieceL, Rat(sl, 1))
          /\ (~best.ok \/ total <= best.total)
       THEN [ok |-> TRUE, cols |-> cols, rows |-> rows, total |-> total,
             pieceW |-> pieceW, pieceL |-> pieceL]
       ELSE best

\* the body of calcGridLayout's loop for the stock orientation sw x sl
GridFor(best, partW, partL, sw, sl, seamGap) ==
    LET cols == RefineCount(partW, sw, seamGap, CeilDiv(partW, sw), 0)
        rows == RefineCount(partL, sl, seamGap, CeilDiv(partL, sl), 0)
        pieceW == CellSize(partW, cols, seamGap)
        pieceL == CellSize(partL, rows, seamGap)
        total == cols * rows
    IN IF /\ RatLT(Rat(MinUsable, 1), pieceW) /\ RatLT(Rat(MinUsable, 1), pieceL)
          /\ RatLE(pieceW, Rat(sw, 1)) /\ RatLE(pieceL, Rat(sl, 1))
          /\ (~best.ok \/ total < best.total)
       THEN [ok |-> TRUE, cols |-> cols, rows |-> rows, total |-> total,
             pieceW |-> pieceW, pieceL |-> pieceL]
       ELSE best

calcGridLayout(partW, partL, stockW, stockL, seamGap) ==
    GridFor(GridFor(NoGrid, partW, partL, stockW, stockL, seamGap),
            partW, partL, stockL, stockW, seamGap)

\* a warning text; count, cols and rows are the numbers the text holds
Warning(msg, count, cols, rows) == [msg |-> msg, count |-> count, cols |-> cols, rows |-> rows]

NoWarning == Warning("null", 0, 0, 0)

\* a piece of a fitOrSplit result; the suffix ' [i/n]' is <<i, n>>, the empty suffix <<0, 0>>
Piece(w, l, i, n) == [w |-> w, l |-> l, suffix |-> <<i, n>>]

\* ChooseStrip taking the length split on equal strip counts
ChooseStrip_PreferLength(optA, optB) ==
    IF optA.ok /\ optB.ok
    THEN IF optA.stripCount < optB.stripCount
         THEN [best |-> optA, splitAxis |-> "width"]
         ELSE [best |-> optB, splitAxis |-> "length"]
    ELSE IF optA.ok THEN [best |-> optA, splitAxis |-> "width"]
    ELSE IF optB.ok THEN [best |-> optB, splitAxis |-> "length"]
    ELSE [best |-> NoLayout, splitAxis |-> "null"]

\* ChooseStrip with a strip split only when both orientations are possible
ChooseStrip_OnlyBoth(optA, optB) ==
    IF optA.ok /\ optB.ok
    THEN IF optA.stripCount <= optB.stripCount
         THEN [best |-> optA, splitAxis |-> "width"]
         ELSE [best |-> optB, splitAxis |-> "length"]
    ELSE [best |-> NoLayout, splitAxis |-> "null"]

\* ChooseStrip taking the first orientation that is possible, whatever the counts
ChooseStrip_FirstThatWorks(optA, optB) ==
    IF optA.ok THEN [best |-> optA, splitAxis |-> "width"]
    ELSE IF optB.ok THEN [best |-> optB, splitAxis |-> "length"]
    ELSE [best |-> NoLayout, splitAxis |-> "null"]

\* the strip chosen by fitOrSplit: best and splitAxis
ChooseStrip(optA, optB) ==
    IF optA.ok /\ optB.ok
    THEN IF optA.stripCount <= optB.stripCount
         THEN [best |-> optA, splitAxis |-> "width"]
         ELSE [best |-> optB, splitAxis |-> "length"]
    ELSE IF optA.ok THEN [best |-> optA, splitAxis |-> "width"]
    ELSE IF optB.ok THEN [best |-> optB, splitAxis |-> "length"]
    ELSE [best |-> NoLayout, splitAxis |-> "null"]

\* the pieces of a grid split, row-major
gridPieces(grid) ==
    [idx \in 1..(grid.rows * grid.cols) |-> Piece(grid.pieceW, grid.pieceL, idx, grid.total)]

\* the pieces of a strip split numbered from 0
stripPieces_ZeroBased(best, splitAxis) ==
    [i \in 1..best.stripCount |->
        IF splitAxis = "width"
        THEN Piece(best.stripSize, Rat(best.keepDim, 1), i - 1, best.stripCount)
        ELSE Piece(Rat(best.keepDim, 1), best.stripSize, i - 1, best.stripCount)]

\* the pieces of a strip split
stripPieces(best, splitAxis) ==
    [i \in 1..best.stripCount |->
        IF splitAxis = "width"
        THEN Piece(best.stripSize, Rat(best.keepDim, 1), i, best.stripCount)
        ELSE Piece(Rat(best.keepDim, 1), best.stripSize, i, best.stripCount)]

fitOrSplit(partW, partL, stockW, stockL, seamGap, canSplit) ==
    LET whole == <<Piece(Rat(partW, 1), Rat(partL, 1), 0, 0)>>
        optA == calcStripLayout(partW, partL, stockW, stockL, seamGap)
        optB == calcStripLayout(partL, partW, stockW, stockL, seamGap)
        choice == ChooseStrip(optA, optB)
        best == choice.best
        grid == calcGridLayout(partW, partL, stockW, stockL, seamGap)
    IN IF partFitsStock(partW, partL, stockW, stockL)
       THEN [fits |-> TRUE, pieces |-> whole, stripCount |-> 1,
             warning |-> NoWarning, noSplit |-> FALSE]
       ELSE IF ~canSplit
       THEN [fits |-> FALSE, pieces |-> whole, stripCount |-> 1,
             warning |-> Warning("exceeds stock (seams not allowed)", 0, 0, 0),
             noSplit |-> TRUE]
       ELSE IF ~best.ok
       THEN IF grid.ok
            THEN [fits |-> FALSE, pieces |-> gridPieces(grid), stripCount |-> grid.total,
                  warning |-> Warning("will be split into grid", grid.total, grid.cols, grid.rows),
                  noSplit |-> FALSE]
            ELSE [fits |-> FALSE, pieces |-> whole, stripCount |-> 1,
                  warning |-> Warning("cannot be split to fit stock", 0, 0, 0),
                  noSplit |-> TRUE]
       ELSE [fits |-> FALSE, pieces |-> stripPieces(best, choice.splitAxis),
             stripCount |-> best.stripCount,
             warning |-> Warning("will be split into pieces", best.stripCount, 0, 0),
             noSplit |-> FALSE]

\* the common denominator of the pieces of a fitOrSplit result
DenOf(result) == result.pieces[1].w.d * result.pieces[1].l.d

\* the rational q in units of 1/d, d a multiple of its denominator
Scaled(q, d) == q.n * (d \div q.d)

\* pushedParts without the push of the noSplit branch
pushedParts_DropUnsplit(result, qty, partW, partL, d) ==
    IF result.noSplit THEN <<>>
    ELSE IF result.fits
    THEN <<[qty |-> qty, w |-> partW * d, l |-> partL * d]>>
    ELSE [i \in 1..Len(result.pieces) |->
            [qty |-> qty, w |-> Scaled(result.pieces[i].w, d),
             l |-> Scaled(result.pieces[i].l, d)]]

\* the entries splitAndPush pushes into partsArr, lengths in units of 1/d
pushedParts(result, qty, partW, partL, d) ==
    IF result.fits \/ result.noSplit
    THEN <<[qty |-> qty, w |-> partW * d, l |-> partL * d]>>
    ELSE [i \in 1..Len(result.pieces) |->
            [qty |-> qty, w |-> Scaled(result.pieces[i].w, d),
             l |-> Scaled(result.pieces[i].l, d)]]

\* the entries splitAndPush pushes into warningsArr
pushedWarnings(result) == IF result.fits THEN <<>> ELSE <<result.warning>>

----------------------------------------------------------------------------
(* The state machine *)

\* the record of the call that built the part list
Job(kind, qty, in, canSplit, result) ==
    [kind |-> kind, qty |-> qty, partW |-> in[1], partL |-> in[2],
     stockW |-> in[3], stockL |-> in[4], seamGap |-> in[5],
     canSplit |-> canSplit, result |-> result]

NoResult == [fits |-> FALSE, pieces |-> <<>>, stripCount |-> 0,
             warning |-> NoWarning, noSplit |-> FALSE]

NoJob == Job("none", 0, <<0, 0, 0, 0, 0>>, FALSE, NoResult)

\* the part lists handed to nestParts directly
PartRecs == [qty : 1..MaxQty, w : Dims, l : Dims]

\* part lists with two parts of equal area and different longest sides, in both orders
TieLists ==
    {<<[qty |-> 1, w |-> 2, l |-> 2], [qty |-> 2, w |-> 1, l |-> 4]>>,
     <<[qty |-> 1, w |-> 4, l |-> 1], [qty |-> 2, w |-> 2, l |-> 2]>>,
     <<[qty |-> 2, w |-> 2, l |-> 2], [qty |-> 1, w |-> 1, l |-> 4]>>}

PartLists == UNION {[1..n -> PartRecs] : n \in PartCounts} \cup TieLists

Init ==
    /\ pc = "idle"
    /\ job = NoJob
    /\ warnings = <<>>
    /\ parts = <<>>
    /\ den = 1
    /\ sheetW = 0
    /\ sheetL = 0
    /\ kerf = 0
    /\ rects = <<>>
    /\ r = 1
    /\ sheets = <<>>
    /\ unplaced = <<>>
    /\ runs = 0
    /\ fitPerSheet = <<>>

\* the entry of nestParts with the sheet list kept from the run before (a list
\* that would live outside the function)
EnterNest_SharedSheets(ps, sW, sL, k, d) ==
    /\ parts' = ps
    /\ den' = d
    /\ sheetW' = sW
    /\ sheetL' = sL
    /\ kerf' = k
    /\ rects' = SortRects(ExpandParts(ps))
    /\ r' = 1
    /\ sheets' = sheets
    /\ unplaced' = <<>>
    /\ runs' = runs + 1
    /\ pc' = "nest"
    /\ UNCHANGED fitPerSheet

\* the entry of nestParts: the expansion and the sort, up to the placing loop
EnterNest(ps, sW, sL, k, d) ==
    /\ parts' = ps
    /\ den' = d
    /\ sheetW' = sW
    /\ sheetL' = sL
    /\ kerf' = k
    /\ rects' = SortRects(ExpandParts(ps))
    /\ r' = 1
    /\ sheets' = <<>>
    /\ unplaced' = <<>>
    /\ runs' = runs + 1
    /\ pc' = "nest"
    /\ UNCHANGED fitPerSheet

\* nestParts called on a part list
NestParts ==
    /\ pc = "idle"
    /\ \E ps \in PartLists, st \in NestStocks, k \in NestKerfs :
          EnterNest(ps, st[1], st[2], k, 1)
    /\ UNCHANGED <<job, warnings>>

\* splitAndPush on one part, then nestParts on partsArr (as calcPlatform and calcCase do)
SplitAndPush ==
    /\ pc = "idle"
    /\ \E in \in SplitInputs, qty \in 1..MaxQty, canSplit \in BOOLEAN :
          LET result == fitOrSplit(in[1], in[2], in[3], in[4], in[5], canSplit)
              d == DenOf(result)
          IN /\ job' = Job("splitAndPush", qty, in, canSplit, result)
             /\ warnings' = pushedWarnings(result)
             /\ EnterNest(pushedParts(result, qty, in[1], in[2], d),
                          in[3] * d, in[4] * d, in[5] * d, d)

\* calcSheet on a panel w x l of params.qty units: the part list holds one unit
CalcSheet ==
    /\ pc = "idle"
    /\ \E in \in SplitInputs, qty \in 1..MaxQty :
          LET canSplit == allowsSeams("mat.name")
              result == fitOrSplit(in[1], in[2], in[3], in[4], in[5], canSplit)
              d == DenOf(result)
          IN /\ job' = Job("calcSheet", qty, in, canSplit, result)
             /\ warnings' = pushedWarnings(result)
             /\ EnterNest(pushedParts(result, 1, in[1], in[2], d),
                          in[3] * d, in[4] * d, in[5] * d, d)

\* one iteration of the placing loop that leaves the loop at a piece that does not fit
NestStep_StopsAtUnplaced ==
    /\ pc = "nest"
    /\ r <= Len(rects)
    /\ LET rect == rects[r]
           canFit == partFits(rect.w, rect.h, sheetW, sheetL)
       IN IF ~canFit
          THEN /\ unplaced' = Append(unplaced, rect)
               /\ r' = Len(rects) + 1
               /\ UNCHANGED sheets
          ELSE /\ sheets' = PlaceRect(sheets, rect, sheetW, sheetL, kerf)
               /\ r' = r + 1
               /\ UNCHANGED unplaced
    /\ UNCHANGED <<pc, job, warnings, parts, den, sheetW, sheetL, kerf, rects, runs, fitPerSheet>>

\* one iteration of the placing loop of nestParts
NestStep ==
    /\ pc = "nest"
    /\ r <= Len(rects)
    /\ LET rect == rects[r]
           canFit == partFits(rect.w, rect.h, sheetW, sheetL)
       IN IF ~canFit
          THEN /\ unplaced' = Append(unplaced, rect)
               /\ UNCHANGED sheets
          ELSE /\ sheets' = PlaceRect(sheets, rect, sheetW, sheetL, kerf)
               /\ UNCHANGED unplaced
    /\ r' = r + 1
    /\ UNCHANGED <<pc, job, warnings, parts, den, sheetW, sheetL, kerf, rects, runs, fitPerSheet>>

\* nestParts returns { sheets, unplaced }
NestReturn ==
    /\ pc = "nest"
    /\ r > Len(rects)
    /\ pc' = "done"
    /\ UNCHANGED <<job, warnings, parts, den, sheetW, sheetL, kerf, rects, r, sheets,
                   unplaced, runs, fitPerSheet>>

\* the Sheet Estimate table of the results: partsPerSheet of every part of the list
RenderSheetEstimate ==
    /\ pc = "done"
    /\ fitPerSheet = <<>>
    /\ fitPerSheet' = [i \in 1..Len(parts) |->
                          partsPerSheet(parts[i].w, parts[i].l, sheetW, sheetL, kerf)]
    /\ UNCHANGED <<pc, job, warnings, parts, den, sheetW, sheetL, kerf, rects, r, sheets,
                   unplaced, runs>>

Next ==
    NestParts \/ SplitAndPush \/ CalcSheet \/ NestStep \/ NestReturn \/ RenderSheetEstimate

Spec == Init /\ [][Next]_vars

----------------------------------------------------------------------------
(* nestParts called again and again by the same page *)

\* the part lists of the repeated calls: one part each
RunLists == [1..1 -> PartRecs]

\* nestParts called on a part list, on a fresh page or after an earlier run returned
NestAgain ==
    /\ pc \in {"idle", "done"}
    /\ runs < MaxRuns
    /\ \E ps \in RunLists, st \in NestStocks, k \in NestKerfs :
          EnterNest(ps, st[1], st[2], k, 1)
    /\ UNCHANGED <<job, warnings>>

NextRuns == NestAgain \/ NestStep \/ NestReturn

SpecRuns == Init /\ [][NextRuns]_vars

\* the placing loop of nestParts from rectangle i on, as one function
RECURSIVE NestFrom(_, _, _, _, _, _, _)
NestFrom(rs, i, shs, unp, sW, sL, k) ==
    IF i > Len(rs) THEN [sheets |-> shs, unplaced |-> unp]
    ELSE IF ~partFits(rs[i].w, rs[i].h, sW, sL)
    THEN NestFrom(rs, i + 1, shs, Append(unp, rs[i]), sW, sL, k)
    ELSE NestFrom(rs, i + 1, PlaceRect(shs, rs[i], sW, sL, k), unp, sW, sL, k)

\* nestParts(parts, sheetW, sheetL, kerf) as a function of its arguments
nestParts(ps, sW, sL, k) == NestFrom(SortRects(ExpandParts(ps)), 1, <<>>, <<>>, sW, sL, k)

----------------------------------------------------------------------------
(* calcSheet called with what the form holds *)

\* width and length of the sheet form: toNum of the input fields, in eighths of an
\* inch; 0 stands for the values "!w" rejects (0, null from an empty or non-numeric
\* field), a negative number is what parseFloat makes of "-3"
SheetFormDims == {-3, 0, 3, 5}
\* the material of the sheet form
SheetFormStock == <<4, 6>>

\* calcSheet(params, mat, kerf): the validation, then fitOrSplit, the part list and nestParts
CalcSheetForm ==
    /\ pc = "idle"
    /\ \E w \in SheetFormDims, l \in SheetFormDims, k \in SplitKerfs, qty \in 1..MaxQty :
          LET in == <<w, l, SheetFormStock[1], SheetFormStock[2], k>>
              canSplit == allowsSeams("mat.name")
              result == fitOrSplit(w, l, in[3], in[4], k, canSplit)
              d == DenOf(result)
          IN IF w = 0 \/ l = 0
             THEN /\ job' = Job("calcSheet error", qty, in, FALSE, NoResult)
                  /\ pc' = "error"
                  /\ UNCHANGED <<warnings, parts, den, sheetW, sheetL, kerf, rects, r, sheets,
                                 unplaced, runs, fitPerSheet>>
             ELSE /\ job' = Job("calcSheet", qty, in, canSplit, result)
                  /\ warnings' = pushedWarnings(result)
                  /\ EnterNest(pushedParts(result, 1, w, l, d), in[3] * d, in[4] * d, k * d, d)

NextSheet == CalcSheetForm \/ NestStep \/ NestReturn

SpecSheet == Init /\ [][NextSheet]_vars

----------------------------------------------------------------------------
(* Geometry of the properties *)

\* rectangles a and b share area
Overlap(a, b) ==
    /\ a.x < b.x + b.w /\ b.x < a.x + a.w
    /\ a.y < b.y + b.h /\ b.y < a.y + a.h

\* the rectangle of placement p
Occupied(p) == [x |-> p.x, y |-> p.y, w |-> p.w, h |-> p.h]

\* the rectangle of placement p grown by k on its +x and +y sides
Expanded(p, k) == [x |-> p.x, y |-> p.y, w |-> p.w + k, h |-> p.h + k]

\* the point pt lies in rectangle a (half-open)
Inside(pt, a) ==
    /\ a.x <= pt[1] /\ pt[1] < a.x + a.w
    /\ a.y <= pt[2] /\ pt[2] < a.y + a.h

\* every edge coordinate of the rectangles of sheet sh lies in XsOf / YsOf, so the
\* lower-left corners GridPoints(sh) stand for all points of the sheet
XsOf(sh) ==
    {0} \cup {sh.freeRects[i].x : i \in 1..Len(sh.freeRects)}
        \cup {sh.freeRects[i].x + sh.freeRects[i].w : i \in 1..Len(sh.freeRects)}
        \cup {sh.placements[i].x : i \in 1..Len(sh.placements)}
        \cup {sh.placements[i].x + sh.placements[i].w : i \in 1..Len(sh.placements)}
        \cup {sh.placements[i].x + sh.placements[i].w + sh.kerf : i \in 1..Len(sh.placements)}

YsOf(sh) ==
    {0} \cup {sh.freeRects[i].y : i \in 1..Len(sh.freeRects)}
        \cup {sh.freeRects[i].y + sh.freeRects[i].h : i \in 1..Len(sh.freeRects)}
        \cup {sh.placements[i].y : i \in 1..Len(sh.placements)}
        \cup {sh.placements[i].y + sh.placements[i].h : i \in 1..Len(sh.placements)}
        \cup {sh.placements[i].y + sh.placements[i].h + sh.kerf : i \in 1..Len(sh.placements)}

GridPoints(sh) ==
    {<<x, y>> : x \in {v \in XsOf(sh) : v < sh.w}, y \in {v \in YsOf(sh) : v < sh.h}}

FreeAt(sh, pt) == {i \in 1..Len(sh.freeRects) : Inside(pt, sh.freeRects[i])}

PlacedAt(sh, pt) == {i \in 1..Len(sh.placements) : Inside(pt, Occupied(sh.placements[i]))}

KerfAt(sh, pt) == {i \in 1..Len(sh.placements) : Inside(pt, Expanded(sh.placements[i], sh.kerf))}

SheetIdx == 1..Len(sheets)

\* the ids of the rectangles the loop has handled
HandledIdx == 1..(r - 1)

\* the placements <<sheet, position>> that hold the rectangle with this id
PlacementsOf(id) ==
    {sp \in UNION {{<<s, i>> : i \in 1..Len(sheets[s].placements)} : s \in SheetIdx} :
        sheets[sp[1]].placements[sp[2]].rect.id = id}

UnplacedOf(id) == {i \in 1..Len(unplaced) : unplaced[i].id = id}

RECURSIVE SumQty(_, _)
SumQty(ps, i) == IF i > Len(ps) THEN 0 ELSE ps[i].qty + SumQty(ps, i + 1)

\* the free rectangles of sheet sh after its first n placements, replayed from the empty sheet
RECURSIVE FreeAfter(_, _)
FreeAfter(sh, n) ==
    IF n = 0 THEN Sheet(sh.w, sh.h, sh.index, sh.kerf).freeRects
    ELSE updateFreeRects(FreeAfter(sh, n - 1), sh.placements[n], sh.kerf)

\* on sheet sh, the n-th placement made removeDuplicateRects drop a rectangle
PrunedAt(sh, n) ==
    Len(newFreeRects(FreeAfter(sh, n - 1), sh.placements[n], sh.kerf)) > Len(FreeAfter(sh, n))

----------------------------------------------------------------------------
(* Properties *)

\* C1 (as claimed): for every two distinct placements on the same sheet, the
\* kerf-expanded rectangles [x, x+w+kerf) x [y, y+h+kerf) do not intersect.
C1_NoKerfOverlap ==
    \A s \in SheetIdx :
        \A i, j \in 1..Len(sheets[s].placements) :
            i # j => ~Overlap(Expanded(sheets[s].placements[i], sheets[s].kerf),
                              Expanded(sheets[s].placements[j], sheets[s].kerf))

\* C2: every handled piece is exactly once in the result, as one placement on one
\* sheet or as one entry of unplaced; it is in unplaced iff it fits the empty stock
\* in neither orientation; the expansion yields sum(qty) pieces with distinct ids.
C2_EveryPieceOnce ==
    pc \in {"nest", "done"} =>
        /\ Len(rects) = SumQty(parts, 1)
        /\ {rects[i].id : i \in 1..Len(rects)} = 0..(Len(rects) - 1)
        /\ \A i \in 1..Len(rects) :
              LET id == rects[i].id
                  fitsRaw == \/ (rects[i].w <= sheetW /\ rects[i].h <= sheetL)
                             \/ (rects[i].h <= sheetW /\ rects[i].w <= sheetL)
              IN IF i \in HandledIdx
                 THEN /\ Cardinality(PlacementsOf(id)) + Cardinality(UnplacedOf(id)) = 1
                      /\ (UnplacedOf(id) # {}) <=> ~fitsRaw
                 ELSE PlacementsOf(id) = {} /\ UnplacedOf(id) = {}
        /\ (pc = "done" => r = Len(rects) + 1)

\* C2 witness: a finished run that placed pieces on two sheets and reported a
\* piece unplaced.
C2_Witness ==
    /\ pc = "done"
    /\ Len(sheets) >= 2
    /\ unplaced # <<>>

\* C3 (as claimed): free regions and un-expanded placement rectangles tile the
\* sheet exactly: every point of the sheet is covered by exactly one of them.
C3_ExactTiling ==
    \A s \in SheetIdx : \A pt \in GridPoints(sheets[s]) :
        Cardinality(FreeAt(sheets[s], pt)) + Cardinality(PlacedAt(sheets[s], pt)) = 1

\* C3 (amended): on every sheet, after every placement, every point of the sheet
\* lies in a free region or in the kerf-expanded rectangle of a placement (no
\* other gaps), and a point of a placement's un-expanded rectangle lies in no
\* free region and in no other placement's rectangle; free regions may overlap
\* one another.
C3_CoverageUpToKerf ==
    \A s \in SheetIdx : \A pt \in GridPoints(sheets[s]) :
        /\ FreeAt(sheets[s], pt) # {} \/ KerfAt(sheets[s], pt) # {}
        /\ Cardinality(PlacedAt(sheets[s], pt)) <= 1
        /\ PlacedAt(sheets[s], pt) # {} => FreeAt(sheets[s], pt) = {}

\* C3 witness: a sheet with kerf > 0 and three placements on which a point lies
\* in two free regions and another point lies in no free region and no placement.
C3_Witness ==
    \E s \in SheetIdx :
        /\ sheets[s].kerf > 0
        /\ Len(sheets[s].placements) >= 3
        /\ \E pt \in GridPoints(sheets[s]) : Cardinality(FreeAt(sheets[s], pt)) >= 2
        /\ \E pt \in GridPoints(sheets[s]) :
              FreeAt(sheets[s], pt) = {} /\ PlacedAt(sheets[s], pt) = {}

\* C4 (as claimed): any two distinct free regions of a sheet are non-overlapping.
C4_FreeDisjoint ==
    \A s \in SheetIdx :
        \A i, j \in 1..Len(sheets[s].freeRects) :
            i # j => ~Overlap(sheets[s].freeRects[i], sheets[s].freeRects[j])

\* the area two rectangles share
SharedArea(a, b) ==
    Max(0, Min(a.x + a.w, b.x + b.w) - Max(a.x, b.x))
  * Max(0, Min(a.y + a.h, b.y + b.h) - Max(a.y, b.y))

\* C4 (amended): two distinct free regions of a sheet may overlap, but only
\* partially: they are never the same rectangle and the area they share is
\* smaller than the area of each of them.
C4_FreeOverlapPartial ==
    \A s \in SheetIdx :
        \A i, j \in 1..Len(sheets[s].freeRects) :
            i # j =>
                LET a == sheets[s].freeRects[i]
                    b == sheets[s].freeRects[j]
                IN /\ a # b
                   /\ SharedArea(a, b) < a.w * a.h
                   /\ SharedArea(a, b) < b.w * b.h

\* C4 witness: a sheet after two placements, the second of which made
\* removeDuplicateRects drop a rectangle, with two free regions that overlap.
C4_Witness ==
    \E s \in SheetIdx :
        /\ Len(sheets[s].placements) >= 2
        /\ PrunedAt(sheets[s], Len(sheets[s].placements))
        /\ \E i, j \in 1..Len(sheets[s].freeRects) :
              i # j /\ Overlap(sheets[s].freeRects[i], sheets[s].freeRects[j])

\* C5: no free region of a sheet is fully contained in another free region of
\* the same sheet.
C5_NoFreeContained ==
    \A s \in SheetIdx :
        \A i, j \in 1..Len(sheets[s].freeRects) :
            i # j =>
                LET a == sheets[s].freeRects[i]
                    b == sheets[s].freeRects[j]
                IN ~(/\ b.x <= a.x /\ b.y <= a.y
                     /\ a.x + a.w <= b.x + b.w /\ a.y + a.h <= b.y + b.h)

\* C5 witness: a sheet with three free regions left after a placement for which
\* removeDuplicateRects dropped a contained rectangle.
C5_Witness ==
    \E s \in SheetIdx :
        /\ Len(sheets[s].freeRects) >= 3
        /\ \E n \in 1..Len(sheets[s].placements) : PrunedAt(sheets[s], n)

\* C6: every handled piece whose width or length exceeds max(stockW, stockL) is
\* in unplaced and on no sheet, for every kerf and whatever else is in the list.
C6_TooLongUnplaced ==
    \A i \in HandledIdx :
        (rects[i].w > Max(sheetW, sheetL) \/ rects[i].h > Max(sheetW, sheetL)) =>
            /\ UnplacedOf(rects[i].id) # {}
            /\ PlacementsOf(rects[i].id) = {}

\* C6 witness: a finished run with kerf > 0 in which a piece longer than the
\* stock is unplaced while another piece of the list is placed.
C6_Witness ==
    /\ pc = "done"
    /\ kerf > 0
    /\ sheets # <<>>
    /\ \E i \in 1..Len(unplaced) :
          unplaced[i].w > Max(sheetW, sheetL) \/ unplaced[i].h > Max(sheetW, sheetL)

\* the job is a fitOrSplit call whose resolution is Split
IsSplit == job.kind # "none" /\ ~job.result.fits /\ ~job.result.noSplit

\* the job is a fitOrSplit call whose resolution is a strip split
IsStripSplit == IsSplit /\ job.result.warning.msg = "will be split into pieces"

\* the job is a fitOrSplit call whose resolution is Unsplittable
IsUnsplittable == job.kind # "none" /\ ~job.result.fits /\ job.result.noSplit

\* the rational piece w x l fits the stock in one orientation at least
RatFitsStock(w, l, stockW, stockL) ==
    \/ (RatLE(w, Rat(stockW, 1)) /\ RatLE(l, Rat(stockL, 1)))
    \/ (RatLE(l, Rat(stockW, 1)) /\ RatLE(w, Rat(stockL, 1)))

\* C7: every sub-piece of a Split resolution fits the stock in at least one
\* orientation, and when the pieces are nested against the same stock each handled
\* one is placed on a sheet and none is reported in unplaced.
C7_SplitPiecesFit ==
    IsSplit =>
        /\ \A i \in 1..Len(job.result.pieces) :
              RatFitsStock(job.result.pieces[i].w, job.result.pieces[i].l,
                           job.stockW, job.stockL)
        /\ unplaced = <<>>
        /\ \A i \in HandledIdx : PlacementsOf(rects[i].id) # {}

\* C7 witness: a finished run over the pieces of a grid split, every piece placed.
C7_Witness ==
    /\ pc = "done"
    /\ IsSplit
    /\ job.result.warning.msg = "will be split into grid"
    /\ Len(rects) >= 4
    /\ \A i \in 1..Len(rects) : PlacementsOf(rects[i].id) # {}

\* the maximum strip size as the claim states it
ClaimedMaxStrip(keep, stockW, stockL) ==
    IF keep <= stockW /\ keep <= stockL THEN Max(stockW, stockL)
    ELSE IF keep <= stockW THEN stockL ELSE stockW

\* N strips of size s with N - 1 gaps make up dim: N*s + (N-1)*gap = dim
Reconstructs(n, s, gap, dim) == n * s.n + (n - 1) * gap * s.d = dim * s.d

\* C8: for every strip split with N pieces of strip size s, N*s + (N-1)*kerf equals
\* the dimension that was split, the kept dimension of every piece is the original
\* kept dimension, and s is at most the maximum strip size for that kept dimension.
C8_StripReconstruction ==
    IsStripSplit =>
        LET ps == job.result.pieces
            n == Len(ps)
        IN /\ n = job.result.stripCount
           /\ \/ \A i \in 1..n :
                    /\ RatEq(ps[i].l, Rat(job.partL, 1))
                    /\ Reconstructs(n, ps[i].w, job.seamGap, job.partW)
                    /\ RatLE(ps[i].w, Rat(ClaimedMaxStrip(job.partL, job.stockW, job.stockL), 1))
              \/ \A i \in 1..n :
                    /\ RatEq(ps[i].w, Rat(job.partW, 1))
                    /\ Reconstructs(n, ps[i].l, job.seamGap, job.partL)
                    /\ RatLE(ps[i].l, Rat(ClaimedMaxStrip(job.partW, job.stockW, job.stockL), 1))

\* C8 witness: a strip split into three or more strips with kerf > 0 whose kept
\* dimension fits only one stock axis.
C8_Witness ==
    /\ IsStripSplit
    /\ job.seamGap > 0
    /\ job.result.stripCount >= 3
    /\ \E i \in 1..Len(job.result.pieces) :
          LET pw == job.result.pieces[i].w
              pl == job.result.pieces[i].l
              keep == IF RatEq(pw, Rat(job.partW, 1)) THEN job.partW ELSE job.partL
          IN keep > Min(job.stockW, job.stockL)

\* the job is fitOrSplit(96, 200, 48, 96, 0.125, true), in eighths of an inch
IsScenarioA ==
    /\ job.kind # "none"
    /\ <<job.partW, job.partL, job.stockW, job.stockL, job.seamGap>> = <<768, 1600, 384, 768, 1>>
    /\ job.canSplit

\* C9 (as claimed): 96 x 200 against 48 x 96 with kerf 0.125 is split along the
\* 200 axis into exactly 3 strips of width 96 and length (200 - 2*0.125)/3.
C9_ThreeStrips ==
    IsScenarioA =>
        /\ IsStripSplit
        /\ job.result.stripCount = 3
        /\ Len(job.result.pieces) = 3
        /\ \A i \in 1..Len(job.result.pieces) :
              /\ RatEq(job.result.pieces[i].w, Rat(768, 1))
              /\ RatEq(job.result.pieces[i].l, Rat(1600 - 2 * 1, 3))

\* C9 (amended): 96 x 200 against 48 x 96 with kerf 0.125 is split along the 200
\* axis into exactly 5 strips of width 96 and length (200 - 4*0.125)/5 = 39.9:
\* the kept 96 takes the 96 axis of the stock, so a strip is at most 48 long.
C9_FiveStrips ==
    IsScenarioA =>
        /\ IsStripSplit
        /\ job.result.stripCount = 5
        /\ Len(job.result.pieces) = 5
        /\ \A i \in 1..Len(job.result.pieces) :
              /\ RatEq(job.result.pieces[i].w, Rat(768, 1))
              /\ RatEq(job.result.pieces[i].l, Rat(1600 - 4 * 1, 5))
              /\ job.result.pieces[i].suffix = <<i, 5>>

\* C9 witness: the call of scenario A has been made and its five strips nested.
C9_Witness == IsScenarioA /\ pc = "done" /\ Len(rects) >= 5

\* the quantity of the part pushed for the job: qty in splitAndPush, 1 in calcSheet
PushedQty == IF job.kind = "calcSheet" THEN 1 ELSE job.qty

C11_FitsIffFitsStock ==
    job.kind # "none" =>
        LET fitsRaw == \/ (job.partW <= job.stockW /\ job.partL <= job.stockL)
                       \/ (job.partL <= job.stockW /\ job.partW <= job.stockL)
            isFits(res) ==
                /\ res.fits
                /\ res.pieces = <<Piece(Rat(job.partW, 1), Rat(job.partL, 1), 0, 0)>>
                /\ res.warning = NoWarning
        IN /\ isFits(job.result) <=> fitsRaw
           /\ job.result.fits <=> fitsRaw
           /\ \A k \in SplitKerfs \cup {FullSizeKerf}, c \in BOOLEAN :
                 isFits(fitOrSplit(job.partW, job.partL, job.stockW, job.stockL, k, c))
                     <=> fitsRaw

\* C11 witness: 48 x 96 against 48 x 96 stock is Fits, and so is a part that fits
\* only swapped; the whole part went to nestParts and was placed.
C11_Witness ==
    /\ pc = "done"
    /\ job.kind = "splitAndPush"
    /\ job.result.fits
    /\ job.result.warning = NoWarning
    /\ Len(job.result.pieces) = 1
    /\ <<job.partW, job.partL, job.stockW, job.stockL>> = <<384, 768, 384, 768>>
    /\ job.seamGap = FullSizeKerf
    /\ unplaced = <<>>
    /\ Len(sheets) = job.qty

\* C12: every placement has (w, h) = (piece.h, piece.w) when rotated and
\* (piece.w, piece.h) otherwise, and a placed piece that fits the stock only swapped
\* is placed with rotated = true.
C12_RotatedFootprint ==
    \A s \in SheetIdx :
        \A i \in 1..Len(sheets[s].placements) :
            LET p == sheets[s].placements[i]
                onlySwapped == /\ ~(p.rect.w <= sheetW /\ p.rect.h <= sheetL)
                               /\ (p.rect.h <= sheetW /\ p.rect.w <= sheetL)
            IN /\ p.rotated => (p.w = p.rect.h /\ p.h = p.rect.w)
               /\ ~p.rotated => (p.w = p.rect.w /\ p.h = p.rect.h)
               /\ onlySwapped => p.rotated

\* C12 witness: 90 x 40 against 48 x 96 stock, placed rotated with footprint 40 x 90.
C12_Witness ==
    /\ pc = "done"
    /\ <<job.partW, job.partL, job.stockW, job.stockL>> = <<720, 320, 384, 768>>
    /\ Len(sheets) >= 1
    /\ Len(sheets[1].placements) >= 1
    /\ sheets[1].placements[1].rotated
    /\ sheets[1].placements[1].w = 320
    /\ sheets[1].placements[1].h = 720

\* C13: nestParts is a function of its arguments: whatever runs came before on
\* the same page, a run returns the sheets and the unplaced list that the run on
\* an untouched page returns for these arguments, and the part list it was given
\* is still the list its pieces were expanded from.
C13_ResultDependsOnArgsOnly ==
    /\ pc \in {"nest", "done"} => rects = SortRects(ExpandParts(parts))
    /\ pc = "done" =>
          LET res == nestParts(parts, sheetW, sheetL, kerf)
          IN sheets = res.sheets /\ unplaced = res.unplaced

\* C13 witness: a run that came after a run which left sheets and an unplaced
\* piece has returned, with sheets of its own.
C13_Witness ==
    /\ pc = "done"
    /\ runs = 2
    /\ Len(sheets) = 2
    /\ unplaced = <<>>
    /\ parts = <<[qty |-> 2, w |-> 2, l |-> 2]>>
    /\ <<sheetW, sheetL, kerf>> = <<2, 3, 1>>

\* the largest number of copies of length size in a row of length len with k
\* between adjacent copies
GridCount(len, size, k) ==
    CHOOSE n \in 0..len :
        /\ n = 0 \/ n * size + (n - 1) * k <= len
        /\ \A m \in (n + 1)..len : m * size + (m - 1) * k > len

\* the largest row/column grid of w x l copies on a sW x sL sheet, either orientation
GridMax(w, l, sW, sL, k) ==
    Max(GridCount(sW, w, k) * GridCount(sL, l, k),
        GridCount(sW, l, k) * GridCount(sL, w, k))

\* C14 (as claimed): the Fit/Sheet entry of every part is the largest number of
\* copies a row/column grid with kerf between adjacent copies fits on the empty
\* sheet, in the better orientation, and it is at least 1 for a part that fits
\* the stock.
C14_GridMaximum ==
    \A i \in 1..Len(fitPerSheet) :
        /\ fitPerSheet[i] = GridMax(parts[i].w, parts[i].l, sheetW, sheetL, kerf)
        /\ (\/ (parts[i].w <= sheetW /\ parts[i].l <= sheetL)
            \/ (parts[i].l <= sheetW /\ parts[i].w <= sheetL)) => fitPerSheet[i] >= 1

\* the area of the placements i.. of the list ps
RECURSIVE PlacedArea(_, _)
PlacedArea(ps, i) == IF i > Len(ps) THEN 0 ELSE ps[i].w * ps[i].h + PlacedArea(ps, i + 1)

\* C15: every placement's un-expanded rectangle [x, x+w) x [y, y+h) lies within
\* its sheet and shares no area with another placement's un-expanded rectangle on
\* the same sheet, so the placed area of a sheet is at most the sheet's area.
C15_PlacementsInSheetDisjoint ==
    \A s \in SheetIdx :
        LET sh == sheets[s]
        IN /\ \A i \in 1..Len(sh.placements) :
                 /\ 0 <= sh.placements[i].x /\ 0 <= sh.placements[i].y
                 /\ sh.placements[i].w > 0 /\ sh.placements[i].h > 0
                 /\ sh.placements[i].x + sh.placements[i].w <= sh.w
                 /\ sh.placements[i].y + sh.placements[i].h <= sh.h
           /\ \A i, j \in 1..Len(sh.placements) :
                 i # j => ~Overlap(Occupied(sh.placements[i]), Occupied(sh.placements[j]))
           /\ PlacedArea(sh.placements, 1) <= sh.w * sh.h

\* C15 witness: a sheet with three placements, one of them rotated, that reach
\* the right and the far edge of the sheet.
C15_Witness ==
    \E s \in SheetIdx :
        LET sh == sheets[s]
        IN /\ Len(sh.placements) >= 3
           /\ \E i \in 1..Len(sh.placements) : sh.placements[i].rotated
           /\ \E i \in 1..Len(sh.placements) : sh.placements[i].x + sh.placements[i].w = sh.w
           /\ \E i \in 1..Len(sh.placements) : sh.placements[i].y + sh.placements[i].h = sh.h

\* the edge coordinates of the free rectangles fs and of the placement p grown by k
EdgeXs(fs, p, k) ==
    {0, p.x, p.x + p.w, p.x + p.w + k}
        \cup {fs[i].x : i \in 1..Len(fs)} \cup {fs[i].x + fs[i].w : i \in 1..Len(fs)}

EdgeYs(fs, p, k) ==
    {0, p.y, p.y + p.h, p.y + p.h + k}
        \cup {fs[i].y : i \in 1..Len(fs)} \cup {fs[i].y + fs[i].h : i \in 1..Len(fs)}

\* one point per cell of the grid these edges draw: the free rectangles before and
\* after the placement p have all their edges on the grid
CellPoints(fs, p, k) == EdgeXs(fs, p, k) \X EdgeYs(fs, p, k)

\* the point pt lies in a rectangle of the list fs
Covered(fs, pt) == \E i \in 1..Len(fs) : Inside(pt, fs[i])

\* C16: after any sequence of placements on a sheet, every free region lies within
\* the sheet with positive width and height and shares no area with the
\* kerf-expanded rectangle [x, x+w+kerf) x [y, y+h+kerf) of any placement; the kerf
\* is on the +x and +y sides only: a point that was free before a placement and
\* lies left of or above (before x or before y of) the placed piece is still free.
C16_FreeClearOfKerf ==
    \A s \in SheetIdx :
        LET sh == sheets[s]
        IN /\ \A i \in 1..Len(sh.freeRects) :
                 LET f == sh.freeRects[i]
                 IN /\ f.w > 0 /\ f.h > 0
                    /\ 0 <= f.x /\ f.x + f.w <= sh.w
                    /\ 0 <= f.y /\ f.y + f.h <= sh.h
                    /\ \A j \in 1..Len(sh.placements) :
                          ~Overlap(f, Expanded(sh.placements[j], sh.kerf))
           /\ \A n \in 1..Len(sh.placements) :
                 \A before \in {FreeAfter(sh, n - 1)} :
                    \A after \in {updateFreeRects(before, sh.placements[n], sh.kerf)} :
                       \A pt \in CellPoints(before, sh.placements[n], sh.kerf) :
                          (Covered(before, pt) /\ (pt[1] < sh.placements[n].x
                                                   \/ pt[2] < sh.placements[n].y))
                              => Covered(after, pt)
           /\ FreeAfter(sh, Len(sh.placements)) = sh.freeRects

\* C16 witness: a sheet with kerf > 0 on which a free region ends flush against
\* the left side of a placement and a free region ends flush against the near
\* (low-y) side of a placement: no kerf was taken on these sides.
C16_Witness ==
    \E s \in SheetIdx :
        LET sh == sheets[s]
        IN /\ sh.kerf > 0
           /\ \E n \in 1..Len(sh.placements), i \in 1..Len(sh.freeRects) :
                 /\ sh.freeRects[i].x + sh.freeRects[i].w = sh.placements[n].x
                 /\ sh.freeRects[i].y < sh.placements[n].y + sh.placements[n].h
                 /\ sh.placements[n].y < sh.freeRects[i].y + sh.freeRects[i].h
           /\ \E n \in 1..Len(sh.placements), i \in 1..Len(sh.freeRects) :
                 /\ sh.freeRects[i].y + sh.freeRects[i].h = sh.placements[n].y
                 /\ sh.freeRects[i].x < sh.placements[n].x + sh.placements[n].w
                 /\ sh.placements[n].x < sh.freeRects[i].x + sh.freeRects[i].w

\* the free rectangles after are the free rectangles before minus the rectangle of
\* placement p grown by k: point by point, with the untouched rectangles kept and
\* nothing lost by the pruning
FrameOfPlacement(before, after, p, k) ==
    /\ \A pt \in CellPoints(before \o after, p, k) :
          Covered(after, pt) <=> (Covered(before, pt) /\ ~Inside(pt, Expanded(p, k)))
    /\ \A i \in 1..Len(before) :
          ~Overlap(before[i], Expanded(p, k)) => \E j \in 1..Len(after) : after[j] = before[i]
    /\ \A pt \in CellPoints(newFreeRects(before, p, k) \o after, p, k) :
          Covered(newFreeRects(before, p, k), pt) => Covered(after, pt)

\* what one step does to the sheets: a sheet that changed, or is new, got exactly
\* one placement and its free space changed by the frame of that placement
PlacementStepFrame ==
    \A s \in 1..Len(sheets') :
        IF s <= Len(sheets) /\ sheets'[s] = sheets[s] THEN TRUE
        ELSE LET before == IF s <= Len(sheets) THEN sheets[s].freeRects
                           ELSE Sheet(sheetW, sheetL, s, kerf).freeRects
                 placedBefore == IF s <= Len(sheets) THEN sheets[s].placements ELSE <<>>
                 n == Len(sheets'[s].placements)
             IN /\ n = Len(placedBefore) + 1
                /\ SubSeq(sheets'[s].placements, 1, n - 1) = placedBefore
                /\ FrameOfPlacement(before, sheets'[s].freeRects,
                                    sheets'[s].placements[n], sheets'[s].kerf)

\* C17: in every step of a nesting run, a placement changes the free space of its
\* sheet by exactly removing the kerf-expanded occupied rectangle: a point is
\* covered by a free region after the placement iff it was covered before and lies
\* outside [x, x+w+kerf) x [y, y+h+kerf); free regions that do not intersect the
\* expanded rectangle are kept unchanged, and the pruning removes no covered area.
C17_PlacementFrame == [][PlacementStepFrame]_vars

\* C17 witness: on a sheet with kerf > 0 the latest placement cut some free
\* regions, left another one untouched, and the pruning dropped a residual.
C17_Witness ==
    \E s \in SheetIdx :
        LET sh == sheets[s]
            n == Len(sh.placements)
        IN /\ sh.kerf > 0
           /\ n >= 2
           /\ PrunedAt(sh, n)
           /\ \E i \in 1..Len(FreeAfter(sh, n - 1)) :
                 ~Overlap(FreeAfter(sh, n - 1)[i], Expanded(sh.placements[n], sh.kerf))
           /\ \E i \in 1..Len(FreeAfter(sh, n - 1)) :
                 Overlap(FreeAfter(sh, n - 1)[i], Expanded(sh.placements[n], sh.kerf))

\* some free region of sheet sh holds the piece rect in one of the two orientations
Eligible(sh, rect) ==
    \E i \in 1..Len(sh.freeRects) :
        \/ (rect.w <= sh.freeRects[i].w /\ rect.h <= sh.freeRects[i].h)
        \/ (rect.h <= sh.freeRects[i].w /\ rect.w <= sh.freeRects[i].h)

\* the step placed the piece rects[r] on the existing sheet k and nowhere else
PlacedOnExisting(k) ==
    /\ Len(sheets') = Len(sheets)
    /\ \A j \in SheetIdx : j # k => sheets'[j] = sheets[j]
    /\ Len(sheets'[k].placements) = Len(sheets[k].placements) + 1
    /\ sheets'[k].placements[Len(sheets'[k].placements)].rect = rects[r]
    /\ sheets'[k].index = sheets[k].index

\* the step placed the piece rects[r] on a new sheet at the end of the list
PlacedOnNew ==
    /\ Len(sheets') = Len(sheets) + 1
    /\ \A j \in SheetIdx : sheets'[j] = sheets[j]
    /\ Len(sheets'[Len(sheets')].placements) = 1
    /\ sheets'[Len(sheets')].placements[1].rect = rects[r]

\* a step that changes the sheets is first-fit in creation order
FirstFitStep ==
    sheets' # sheets =>
        \/ \E k \in SheetIdx :
              /\ PlacedOnExisting(k)
              /\ Eligible(sheets[k], rects[r])
              /\ \A j \in 1..(k - 1) : ~Eligible(sheets[j], rects[r])
        \/ /\ PlacedOnNew
           /\ \A j \in SheetIdx : ~Eligible(sheets[j], rects[r])
           /\ sheets'[Len(sheets')].index = Len(sheets) + 1

\* the sheets are in creation order with indices 1..n and a placement each
SheetsNumbered ==
    \A s \in SheetIdx : sheets[s].index = s /\ sheets[s].placements # <<>>

\* C18: nestParts is first-fit over the sheets in creation order: a piece placed on
\* sheet k had no eligible free region on the sheets 1..k-1 when it was placed; a
\* new sheet is created only when no existing sheet accepts the piece and gets the
\* index (number of existing sheets + 1); the sheets are always in creation order
\* with indices 1..n and at least one placement each.
C18_FirstFit == []SheetsNumbered /\ [][FirstFitStep]_vars

\* C18 witness: the run returned two or more sheets, and a piece went to sheet 1
\* after sheet 2 had been opened (sheet 1 holds a piece that follows, in handling
\* order, the first piece of sheet 2).
C18_Witness ==
    /\ pc = "done"
    /\ Len(sheets) >= 2
    /\ \E i \in 1..Len(sheets[1].placements) :
          \E a, b \in 1..Len(rects) :
              /\ a < b
              /\ rects[a] = sheets[2].placements[1].rect
              /\ rects[b] = sheets[1].placements[i].rect

\* piece a may be handled before piece b: larger area, or the same area and a
\* longest side that is not shorter
GoesNotAfter(a, b) ==
    \/ a.w * a.h > b.w * b.h
    \/ (a.w * a.h = b.w * b.h /\ Max(a.w, a.h) >= Max(b.w, b.h))

\* the position of the piece with this id in the handling order
PosOf(id) == CHOOSE i \in 1..Len(rects) : rects[i].id = id

\* C19: nestParts handles the pieces in non-increasing order of area, pieces of
\* equal area in non-increasing order of max(width, length); the placements of
\* every sheet and the unplaced list hold handled pieces in this handling order.
C19_SortedHandling ==
    pc \in {"nest", "done"} =>
        /\ \A i, j \in 1..Len(rects) : i < j => GoesNotAfter(rects[i], rects[j])
        /\ \A i, j \in 1..Len(unplaced) :
              i < j => /\ PosOf(unplaced[i].id) < PosOf(unplaced[j].id)
                       /\ GoesNotAfter(unplaced[i], unplaced[j])
        /\ \A i \in 1..Len(unplaced) : PosOf(unplaced[i].id) \in HandledIdx
        /\ \A s \in SheetIdx :
              /\ \A i, j \in 1..Len(sheets[s].placements) :
                    i < j => /\ PosOf(sheets[s].placements[i].rect.id)
                                    < PosOf(sheets[s].placements[j].rect.id)
                             /\ GoesNotAfter(sheets[s].placements[i].rect,
                                             sheets[s].placements[j].rect)
              /\ \A i \in 1..Len(sheets[s].placements) :
                    PosOf(sheets[s].placements[i].rect.id) \in HandledIdx
              /\ s > 1 => PosOf(sheets[s - 1].placements[1].rect.id)
                              < PosOf(sheets[s].placements[1].rect.id)

\* C19 witness: the part list gave a 2 x 2 part before a 1 x 4 part of the same
\* area; the run handled and placed the 1 x 4 pieces first, on the same sheet.
C19_Witness ==
    /\ pc = "done"
    /\ parts = <<[qty |-> 1, w |-> 2, l |-> 2], [qty |-> 2, w |-> 1, l |-> 4]>>
    /\ rects[1].id > rects[3].id
    /\ Len(sheets) = 1
    /\ Len(sheets[1].placements) = 3
    /\ sheets[1].placements[1].rect.h = 4
    /\ sheets[1].placements[3].rect.h = 2

\* the pairs <<region, rotated>> of the free list fs that hold a w x h piece
Candidates(fs, w, h) ==
    {c \in (1..Len(fs)) \X BOOLEAN :
        IF c[2] THEN h <= fs[c[1]].w /\ w <= fs[c[1]].h
        ELSE w <= fs[c[1]].w /\ h <= fs[c[1]].h}

\* min(regionW - pieceW, regionH - pieceH) for the piece as oriented by c
ScoreOf(fs, c, w, h) ==
    IF c[2] THEN Min(fs[c[1]].w - h, fs[c[1]].h - w)
    ELSE Min(fs[c[1]].w - w, fs[c[1]].h - h)

\* c comes before d in the scan: regions in list order, unrotated before rotated
ScannedBefore(c, d) == c[1] < d[1] \/ (c[1] = d[1] /\ ~c[2] /\ d[2])

\* res is what the claim says findBestPosition returns on fs for a w x h piece
IsBestPosition(fs, w, h, res) ==
    IF Candidates(fs, w, h) = {} THEN ~res.found
    ELSE /\ res.found
         /\ \E c \in Candidates(fs, w, h) :
               /\ \A d \in Candidates(fs, w, h) :
                     /\ ScoreOf(fs, c, w, h) <= ScoreOf(fs, d, w, h)
                     /\ (ScoreOf(fs, d, w, h) = ScoreOf(fs, c, w, h) /\ d # c)
                            => ScannedBefore(c, d)
               /\ res.x = fs[c[1]].x
               /\ res.y = fs[c[1]].y
               /\ res.rotated = c[2]

\* C20: on the free list of every sheet and for every piece of the run,
\* findBestPosition returns null iff no free region holds the piece in either
\* orientation; otherwise it returns the corner of a free region and an orientation
\* in which the piece fits it, with the least score
\* min(regionW - pieceW, regionH - pieceH) of all eligible (region, orientation)
\* pairs and, among pairs of that score, the first in scan order.
C20_BestPosition ==
    \A s \in SheetIdx : \A i \in 1..Len(rects) :
        IsBestPosition(sheets[s].freeRects, rects[i].w, rects[i].h,
                       findBestPosition(sheets[s].freeRects, rects[i].w, rects[i].h))

\* C20 witness: the loop is about to place a piece; on one sheet two different
\* free regions hold it with the same least score, and on another sheet no free
\* region holds it.
C20_Witness ==
    /\ pc = "nest"
    /\ r <= Len(rects)
    /\ \E s \in SheetIdx :
          LET fs == sheets[s].freeRects
              cs == Candidates(fs, rects[r].w, rects[r].h)
          IN \E c, d \in cs :
                /\ c[1] # d[1]
                /\ ScoreOf(fs, c, rects[r].w, rects[r].h) = ScoreOf(fs, d, rects[r].w, rects[r].h)
                /\ \A e \in cs : ScoreOf(fs, c, rects[r].w, rects[r].h)
                                    <= ScoreOf(fs, e, rects[r].w, rects[r].h)
    /\ \E s \in SheetIdx : Candidates(sheets[s].freeRects, rects[r].w, rects[r].h) = {}

\* with n strips the strip size (dim - (n-1)*gap)/n is at most maxDim and greater than 0.5
StripCountOk(dim, n, gap, maxDim) ==
    /\ dim - (n - 1) * gap <= n * maxDim
    /\ (dim - (n - 1) * gap) * 1 > MinUsable * n

\* n is the least strip count >= 1 that satisfies both conditions
IsLeastStripCount(dim, n, gap, maxDim) ==
    /\ n >= 1
    /\ StripCountOk(dim, n, gap, maxDim)
    /\ \A m \in 1..(n - 1) : ~StripCountOk(dim, m, gap, maxDim)

\* the strip split of the job divides the width (pieces keep the full length)
SplitsWidth ==
    /\ RatEq(job.result.pieces[1].l, Rat(job.partL, 1))
    /\ Reconstructs(Len(job.result.pieces), job.result.pieces[1].w, job.seamGap, job.partW)

\* the strip split of the job divides the length (pieces keep the full width)
SplitsLength ==
    /\ RatEq(job.result.pieces[1].w, Rat(job.partW, 1))
    /\ Reconstructs(Len(job.result.pieces), job.result.pieces[1].l, job.seamGap, job.partL)

\* C21 (as claimed): the strip count N of a strip split is the minimum N >= 1 for
\* which the strip size (splitDim - (N-1)*kerf)/N is at most the maximum strip size
\* and greater than 0.5: no smaller strip count satisfies both conditions.
C21_MinimalStripCount ==
    IsStripSplit =>
        \/ /\ SplitsWidth
           /\ IsLeastStripCount(job.partW, job.result.stripCount, job.seamGap,
                                ClaimedMaxStrip(job.partL, job.stockW, job.stockL))
        \/ /\ SplitsLength
           /\ IsLeastStripCount(job.partL, job.result.stripCount, job.seamGap,
                                ClaimedMaxStrip(job.partW, job.stockW, job.stockL))

\* the job is a fitOrSplit call that went past the fit test and the canSplit test
TriesSplit ==
    /\ job.kind # "none"
    /\ job.canSplit
    /\ ~((job.partW <= job.stockW /\ job.partL <= job.stockL)
         \/ (job.partL <= job.stockW /\ job.partW <= job.stockL))

\* Option A of the job: split along the width, keep the full length
JobOptA == calcStripLayout(job.partW, job.partL, job.stockW, job.stockL, job.seamGap)

\* Option B of the job: split along the length, keep the full width
JobOptB == calcStripLayout(job.partL, job.partW, job.stockW, job.stockL, job.seamGap)

\* the result of the job is the width split optA: strips of reduced width, full length
IsWidthSplitOf(opt) ==
    /\ IsStripSplit
    /\ job.result.stripCount = opt.stripCount
    /\ Len(job.result.pieces) = opt.stripCount
    /\ \A i \in 1..Len(job.result.pieces) :
          /\ job.result.pieces[i].w = opt.stripSize
          /\ job.result.pieces[i].l = Rat(job.partL, 1)

\* the result of the job is the length split optB: strips of reduced length, full width
IsLengthSplitOf(opt) ==
    /\ IsStripSplit
    /\ job.result.stripCount = opt.stripCount
    /\ Len(job.result.pieces) = opt.stripCount
    /\ \A i \in 1..Len(job.result.pieces) :
          /\ job.result.pieces[i].w = Rat(job.partW, 1)
          /\ job.result.pieces[i].l = opt.stripSize

\* C22: when both strip orientations are possible fitOrSplit chooses the one with
\* fewer strips, and the width split (strips of reduced width, full length kept) on
\* an equal strip count; when only one orientation is possible it chooses that one.
C22_FewerStripsWidthOnTie ==
    TriesSplit =>
        /\ (JobOptA.ok /\ JobOptB.ok /\ JobOptA.stripCount < JobOptB.stripCount)
              => IsWidthSplitOf(JobOptA)
        /\ (JobOptA.ok /\ JobOptB.ok /\ JobOptA.stripCount = JobOptB.stripCount)
              => IsWidthSplitOf(JobOptA)
        /\ (JobOptA.ok /\ JobOptB.ok /\ JobOptA.stripCount > JobOptB.stripCount)
              => IsLengthSplitOf(JobOptB)
        /\ (JobOptA.ok /\ ~JobOptB.ok) => IsWidthSplitOf(JobOptA)
        /\ (~JobOptA.ok /\ JobOptB.ok) => IsLengthSplitOf(JobOptB)

\* C22 witness: 50 x 87.5 against 48 x 96 with kerf 0.125: both orientations take
\* two strips, and the result is the width split, two pieces of 24.9375 x 87.5.
C22_Witness ==
    /\ pc = "done"
    /\ TriesSplit
    /\ <<job.partW, job.partL, job.stockW, job.stockL, job.seamGap>> = <<400, 700, 384, 768, 1>>
    /\ JobOptA.ok /\ JobOptB.ok
    /\ JobOptA.stripCount = 2 /\ JobOptB.stripCount = 2
    /\ JobOptA.stripSize # JobOptB.stripSize
    /\ IsWidthSplitOf(JobOptA)
    /\ job.result.pieces[1].w = Rat(399, 2)

\* the job is a fitOrSplit call whose resolution is a grid split
IsGridSplit == IsSplit /\ job.result.warning.msg = "will be split into grid"

\* the grid layout of the job
JobGrid == calcGridLayout(job.partW, job.partL, job.stockW, job.stockL, job.seamGap)

\* C23: when fitOrSplit tries to split, the result is a grid split only when
\* neither strip orientation yields a layout (both calcStripLayout calls return
\* null); whenever at least one strip layout exists the result is a strip split;
\* Unsplittable is reported only when strip and grid both fail.
C23_GridOnlyWithoutStrip ==
    TriesSplit =>
        /\ IsGridSplit => (~JobOptA.ok /\ ~JobOptB.ok /\ JobGrid.ok)
        /\ (JobOptA.ok \/ JobOptB.ok) => IsStripSplit
        /\ IsStripSplit => (JobOptA.ok \/ JobOptB.ok)
        /\ IsUnsplittable => (~JobOptA.ok /\ ~JobOptB.ok /\ ~JobGrid.ok)
        /\ (~JobOptA.ok /\ ~JobOptB.ok /\ JobGrid.ok) => IsGridSplit
        /\ IsGridSplit \/ IsStripSplit \/ IsUnsplittable

\* C23 witness: a part that exceeds the stock on both axes, for which both strip
\* layouts are null, was split into a grid of cols x rows cells, all of them placed.
C23_Witness ==
    /\ pc = "done"
    /\ TriesSplit
    /\ IsGridSplit
    /\ ~JobOptA.ok /\ ~JobOptB.ok
    /\ job.result.warning.cols >= 2
    /\ job.result.warning.rows >= 2
    /\ Len(job.result.pieces) = job.result.warning.cols * job.result.warning.rows
    /\ unplaced = <<>>

\* the grid of the job for the stock orientation sw x sl: the refined counts, the
\* cell, and whether both cell dimensions are greater than 0.5 and within the stock
GridCandidate(sw, sl) ==
    LET cols == RefineCount(job.partW, sw, job.seamGap, CeilDiv(job.partW, sw), 0)
        rows == RefineCount(job.partL, sl, job.seamGap, CeilDiv(job.partL, sl), 0)
        cw == job.partW - (cols - 1) * job.seamGap
        cl == job.partL - (rows - 1) * job.seamGap
    IN [cols |-> cols, rows |-> rows, total |-> cols * rows,
        valid |-> /\ cw > MinUsable * cols /\ cl > MinUsable * rows
                  /\ cw <= sw * cols /\ cl <= sl * rows]

\* C24: calcGridLayout evaluates both stock orientations and returns the valid one
\* with fewer total cells (cols x rows), the unswapped orientation stockW x stockL
\* on equal totals; the returned cell satisfies cols*pieceW + (cols-1)*kerf = partW
\* and rows*pieceL + (rows-1)*kerf = partL; null is returned when in neither
\* orientation both cell dimensions are greater than 0.5 and within the stock.
C24_GridFewestCells ==
    TriesSplit =>
        LET g == JobGrid
            c1 == GridCandidate(job.stockW, job.stockL)
            c2 == GridCandidate(job.stockL, job.stockW)
            chosen == IF c1.valid /\ (~c2.valid \/ c1.total <= c2.total) THEN c1 ELSE c2
        IN /\ g.ok <=> (c1.valid \/ c2.valid)
           /\ g.ok =>
                 /\ g.cols = chosen.cols
                 /\ g.rows = chosen.rows
                 /\ g.total = g.cols * g.rows
                 /\ Reconstructs(g.cols, g.pieceW, job.seamGap, job.partW)
                 /\ Reconstructs(g.rows, g.pieceL, job.seamGap, job.partL)
           /\ IsGridSplit =>
                 /\ job.result.stripCount = g.total
                 /\ \A i \in 1..Len(job.result.pieces) :
                       /\ job.result.pieces[i].w = g.pieceW
                       /\ job.result.pieces[i].l = g.pieceL

\* C24 witness: a grid split for which both stock orientations are valid with the
\* same total and different cols x rows; the unswapped one was returned.
C24_Witness ==
    /\ pc = "done"
    /\ IsGridSplit
    /\ GridCandidate(job.stockW, job.stockL).valid
    /\ GridCandidate(job.stockL, job.stockW).valid
    /\ GridCandidate(job.stockW, job.stockL).total = GridCandidate(job.stockL, job.stockW).total
    /\ GridCandidate(job.stockW, job.stockL).cols # GridCandidate(job.stockL, job.stockW).cols
    /\ job.result.warning.cols = GridCandidate(job.stockW, job.stockL).cols
    /\ job.result.warning.rows = GridCandidate(job.stockW, job.stockL).rows

\* C25: every Split result of fitOrSplit (strip or grid) consists of N >= 2 pieces
\* of identical dimensions, with stripCount = N, whose suffixes are ' [1/N]',
\* ' [2/N]', ..., ' [N/N]' in list order, each ordinal exactly once; for a grid
\* N = cols x rows and the cell of row r and column c has the ordinal r*cols + c + 1.
C25_SplitSuffixes ==
    IsSplit =>
        LET ps == job.result.pieces
            n == Len(ps)
        IN /\ n >= 2
           /\ job.result.stripCount = n
           /\ job.result.warning.count = n
           /\ \A i \in 1..n : ps[i].w = ps[1].w /\ ps[i].l = ps[1].l
           /\ \A i \in 1..n : ps[i].suffix = <<i, n>>
           /\ {ps[i].suffix[1] : i \in 1..n} = 1..n
           /\ IsGridSplit =>
                 /\ n = job.result.warning.cols * job.result.warning.rows
                 /\ \A row \in 0..(job.result.warning.rows - 1) :
                       \A col \in 0..(job.result.warning.cols - 1) :
                          ps[row * job.result.warning.cols + col + 1].suffix
                              = <<row * job.result.warning.cols + col + 1, n>>

\* C25 witness: 200 x 100 against 48 x 96 stock is split into a grid of 3 x 3
\* cells with the suffixes [1/9] .. [9/9], and the nine parts were nested.
C25_Witness ==
    /\ pc = "done"
    /\ IsGridSplit
    /\ <<job.partW, job.partL, job.stockW, job.stockL>> = <<1600, 800, 384, 768>>
    /\ Len(job.result.pieces) = 9
    /\ job.result.pieces[1].suffix = <<1, 9>>
    /\ job.result.pieces[9].suffix = <<9, 9>>
    /\ job.result.warning.cols = 3
    /\ job.result.warning.rows = 3

\* none of the 10 attempts of the refinement that starts at ceil(dim / maxDim)
\* finds a count that passes the size test
CapReached(dim, gap, maxDim) ==
    \A m \in CeilDiv(dim, maxDim)..(CeilDiv(dim, maxDim) + MaxTries - 1) :
        ~StripCountOk(dim, m, gap, maxDim)

\* the count the refinement leaves is the first one from the start that passes
\* the test, found within 10 attempts, or the start plus 10 when none passes
RefinementCapped(dim, gap, maxDim, n) ==
    LET start == CeilDiv(dim, maxDim)
    IN /\ start <= n /\ n <= start + MaxTries
       /\ \A m \in start..(n - 1) : ~StripCountOk(dim, m, gap, maxDim)
       /\ IF CapReached(dim, gap, maxDim) THEN n = start + MaxTries
          ELSE StripCountOk(dim, n, gap, maxDim)

\* the strip layout of the job that splits dim and keeps keep, as claimed: at the
\* cap the layout with the count reached is returned
StripAtCapReturned(dim, keep) ==
    LET maxDim == ClaimedMaxStrip(keep, job.stockW, job.stockL)
        lay == calcStripLayout(dim, keep, job.stockW, job.stockL, job.seamGap)
    IN (keep <= job.stockW \/ keep <= job.stockL) =>
          /\ lay.ok => RefinementCapped(dim, job.seamGap, maxDim, lay.stripCount)
          /\ CapReached(dim, job.seamGap, maxDim) =>
                (lay.ok /\ lay.stripCount = CeilDiv(dim, maxDim) + MaxTries)

\* C26 (as claimed): the refinement makes at most 10 attempts and always ends;
\* when no attempt within the cap satisfies the strip-size condition the layout
\* with the strip count reached at the cap is returned rather than null.
C26_CapReturnsLayout ==
    TriesSplit =>
        /\ StripAtCapReturned(job.partW, job.partL)
        /\ StripAtCapReturned(job.partL, job.partW)

\* the strip layout of the job that splits dim and keeps keep: at the cap the
\* layout with the count reached is returned iff its strip size is positive
StripAtCapIfPositive(dim, keep) ==
    LET maxDim == ClaimedMaxStrip(keep, job.stockW, job.stockL)
        lay == calcStripLayout(dim, keep, job.stockW, job.stockL, job.seamGap)
        last == CeilDiv(dim, maxDim) + MaxTries
    IN (keep <= job.stockW \/ keep <= job.stockL) =>
          /\ lay.ok => RefinementCapped(dim, job.seamGap, maxDim, lay.stripCount)
          /\ CapReached(dim, job.seamGap, maxDim) =>
                /\ lay.ok <=> dim - (last - 1) * job.seamGap > 0
                /\ lay.ok => /\ lay.stripCount = last
                             /\ RatLE(lay.stripSize, Rat(MinUsable, 1))
          /\ ~CapReached(dim, job.seamGap, maxDim) => lay.ok

\* the grid of the job for the stock orientation sw x sl: an orientation whose
\* column or row refinement reaches the cap is not valid
GridAtCapRejected(sw, sl) ==
    LET c == GridCandidate(sw, sl)
    IN /\ RefinementCapped(job.partW, job.seamGap, sw, c.cols)
       /\ RefinementCapped(job.partL, job.seamGap, sl, c.rows)
       /\ (CapReached(job.partW, job.seamGap, sw) \/ CapReached(job.partL, job.seamGap, sl))
             => ~c.valid

\* C26 (amended): every refinement makes at most 10 attempts and ends with the
\* first count that passes the size test or, when none of the 10 passes, with the
\* starting count plus 10; in that case calcStripLayout returns the layout with
\* that count, whose strip size is at most 0.5, if the strip size is still
\* positive and null otherwise, and calcGridLayout does not take the orientation.
C26_CapReturnsLayoutIfPositive ==
    TriesSplit =>
        /\ StripAtCapIfPositive(job.partW, job.partL)
        /\ StripAtCapIfPositive(job.partL, job.partW)
        /\ GridAtCapRejected(job.stockW, job.stockL)
        /\ GridAtCapRejected(job.stockL, job.stockW)

\* C26 witness: a split attempt in which the width refinement reached the cap
\* with a positive strip size and returned its layout (the result is that strip
\* split, with the starting count plus 10 strips), while the length refinement
\* reached the cap with a strip size below zero and returned null.
C26_Witness ==
    /\ pc = "done"
    /\ TriesSplit
    /\ job.partL <= Max(job.stockW, job.stockL)
    /\ job.partW <= Max(job.stockW, job.stockL)
    /\ CapReached(job.partW, job.seamGap, ClaimedMaxStrip(job.partL, job.stockW, job.stockL))
    /\ CapReached(job.partL, job.seamGap, ClaimedMaxStrip(job.partW, job.stockW, job.stockL))
    /\ JobOptA.ok
    /\ ~JobOptB.ok
    /\ IsStripSplit
    /\ job.result.stripCount
          = CeilDiv(job.partW, ClaimedMaxStrip(job.partL, job.stockW, job.stockL)) + MaxTries

\* the part p fits the raw stock of the run in one orientation at least
FitsRawStock(p) ==
    \/ (p.w <= sheetW /\ p.l <= sheetL)
    \/ (p.l <= sheetW /\ p.w <= sheetL)

\* the placements of the sheets shs without the ids of the pieces: for every sheet,
\* in order, the piece size, position, footprint and rotation of every placement
Layout(shs) ==
    [s \in 1..Len(shs) |->
        [i \in 1..Len(shs[s].placements) |->
            [pieceW |-> shs[s].placements[i].rect.w, pieceH |-> shs[s].placements[i].rect.h,
             x |-> shs[s].placements[i].x, y |-> shs[s].placements[i].y,
             w |-> shs[s].placements[i].w, h |-> shs[s].placements[i].h,
             rotated |-> shs[s].placements[i].rotated]]]

\* the number of placements of the sheets s.. of shs
RECURSIVE PlacedCount(_, _)
PlacedCount(shs, s) ==
    IF s > Len(shs) THEN 0 ELSE Len(shs[s].placements) + PlacedCount(shs, s + 1)

\* C27: classifying a piece as unplaced changes no sheet and does not stop the
\* run: the sheets a run returns (sheet, position and rotation of every placed
\* piece) are those of the run on the part list without the parts that do not fit
\* the raw stock, and every piece of the list was handled: it is on a sheet or in
\* unplaced.
C27_UnplacedLeavesSheets ==
    pc = "done" =>
        /\ Layout(sheets)
              = Layout(nestParts(SelectSeq(parts, FitsRawStock), sheetW, sheetL, kerf).sheets)
        /\ PlacedCount(sheets, 1) + Len(unplaced) = Len(rects)
        /\ PlacedCount(sheets, 1) = SumQty(SelectSeq(parts, FitsRawStock), 1)

\* C27 witness: a run whose first handled piece was unplaced and whose later
\* pieces were placed, on two sheets.
C27_Witness ==
    /\ pc = "done"
    /\ unplaced # <<>>
    /\ unplaced[1].id = rects[1].id
    /\ Len(sheets) >= 2
    /\ PlacedCount(sheets, 1) >= 2

\* a step of a nesting run keeps every sheet it found, with its size and index and
\* with every placement it held, unchanged and at the same position of the list,
\* and keeps the pieces of the run
SheetsOnlyGrow ==
    pc = "nest" =>
        /\ Len(sheets') >= Len(sheets)
        /\ \A s \in SheetIdx :
              /\ sheets'[s].index = sheets[s].index
              /\ sheets'[s].w = sheets[s].w /\ sheets'[s].h = sheets[s].h
              /\ Len(sheets'[s].placements) >= Len(sheets[s].placements)
              /\ \A i \in 1..Len(sheets[s].placements) :
                    sheets'[s].placements[i] = sheets[s].placements[i]
        /\ rects' = rects

\* every placement wraps a piece of the run with the width and height the
\* expansion gave it
PiecesIntact ==
    pc \in {"nest", "done"} =>
        \A expanded \in {ExpandParts(parts)} :
            \A s \in SheetIdx : \A i \in 1..Len(sheets[s].placements) :
                LET p == sheets[s].placements[i]
                IN /\ \E j \in 1..Len(rects) : rects[j] = p.rect
                   /\ \E j \in 1..Len(expanded) : expanded[j] = p.rect

\* C28: during a nesting run sheets are only appended: the number of sheets never
\* decreases, and a placement recorded on a sheet keeps its piece, position,
\* footprint and rotation flag through all later placements, on this or any other
\* sheet, and is never removed; the wrapped piece keeps the width and height the
\* expansion gave it.
C28_SheetsAppendOnly == []PiecesIntact /\ [][SheetsOnlyGrow]_vars

\* C28 witness: a run returned two or more sheets, the first of them with two or
\* more placements, the latest of which was made after sheet 2 had been opened.
C28_Witness ==
    /\ pc = "done"
    /\ Len(sheets) >= 2
    /\ Len(sheets[1].placements) >= 2
    /\ PosOf(sheets[1].placements[Len(sheets[1].placements)].rect.id)
          > PosOf(sheets[2].placements[1].rect.id)

\* C29 (as claimed): every part that calcSheet hands to nestParts, for an input
\* that passed its validation, has width > 0 and length > 0.
C29_PartsPositive ==
    (pc \in {"nest", "done"} /\ job.kind = "calcSheet") =>
        \A i \in 1..Len(parts) : parts[i].w > 0 /\ parts[i].l > 0

\* the resolution kind of a fitOrSplit result
KindOf(result) ==
    IF result.fits THEN "Fits"
    ELSE IF result.noSplit THEN "Unsplittable"
    ELSE "Split"

\* C30: the number of pieces fitOrSplit produces is invariant under rotating the
\* part: fitOrSplit(partW, partL, ...) and fitOrSplit(partL, partW, ...) on the same
\* stock, kerf and canSplit report the same resolution kind (Fits, Split or
\* Unsplittable) and the same piece count.
C30_RotationInvariant ==
    job.kind # "none" =>
        LET rotated == fitOrSplit(job.partL, job.partW, job.stockW, job.stockL,
                                  job.seamGap, job.canSplit)
        IN /\ KindOf(rotated) = KindOf(job.result)
           /\ Len(rotated.pieces) = Len(job.result.pieces)
           /\ rotated.stripCount = job.result.stripCount

\* C30 witness: a part with different width and length whose two strip
\* orientations take different strip counts; it was split into the smaller number
\* of strips, along its length.
C30_Witness ==
    /\ pc = "done"
    /\ TriesSplit
    /\ job.partW # job.partL
    /\ JobOptA.ok /\ JobOptB.ok
    /\ JobOptB.stripCount < JobOptA.stripCount
    /\ IsLengthSplitOf(JobOptB)

=============================================================================
